---- MODULE Spec2Model ----
(***************************************************************************)
(* Model of testDataSource.Read (internal/provider/data_source.go): one    *)
(* call of the command-execution data source, together with the child      *)
(* process it starts through os/exec and the cancellation of its context.  *)
(*                                                                         *)
(* A command is a sequence of characters, so that the empty command is     *)
(* <<>> and strings.Fields is computed as the library computes it.         *)
(***************************************************************************)
EXTENDS Integers, Sequences, FiniteSets, TLC

(* ------------------------------ bounds -------------------------------- *)

\* longest command line explored
MaxCmdLen == 3
\* most bytes the child writes to each of stdout and stderr
MaxOut == 1

(* ----------------------------- universe ------------------------------- *)

\* characters a command is made of: two white-space characters, the name of
\* an executable that is on the search path and the name of a shell builtin
Space == {" ", "\t"}
Chars == Space \cup {"a", "b"}

\* executables found on the search path, and names only the shell knows
OnPath == {<<"a">>}
ShellBuiltins == {<<"b">>}

\* bytes the child may write
Bytes == {"x", "y"}

\* directories: the caller's current directory, one that exists, one that
\* does not
Cwd == "."
ValidDirs == {"/ok"}
WorkingDirs == {"", "/ok", "/bad"}

RECURSIVE SeqsUpTo(_, _)
SeqsUpTo(S, n) ==
    IF n = 0 THEN {<<>>}
    ELSE LET shorter == SeqsUpTo(S, n - 1)
         IN  shorter \cup {Append(s, c) : s \in {t \in shorter : Len(t) = n - 1}, c \in S}

Commands == SeqsUpTo(Chars, MaxCmdLen)

(* ------------------------- framework values --------------------------- *)

\* types.String: a null marker and a value
StringValue(s) == [null |-> FALSE, value |-> s]
DirNull == [null |-> TRUE, value |-> ""]

\* types.String.ValueString: the empty string for a null value
ValueString(v, empty) == IF v.null THEN empty ELSE v.value

\* the state of the response before resp.State.Set
NoState == [set |-> FALSE]

(* --------------------------- pure helpers ----------------------------- *)

\* strings.Fields: the maximal runs of non-white-space characters, in order
RECURSIVE FieldsFrom(_, _, _)
FieldsFrom(s, i, cur) ==
    IF i > Len(s)
    THEN IF cur = <<>> THEN <<>> ELSE <<cur>>
    ELSE IF s[i] \in Space
         THEN IF cur = <<>> THEN FieldsFrom(s, i + 1, <<>>)
                            ELSE <<cur>> \o FieldsFrom(s, i + 1, <<>>)
         ELSE FieldsFrom(s, i + 1, Append(cur, s[i]))

Fields(s) == FieldsFrom(s, 1, <<>>)

\* the test of line 75
IsEmptyCommand(c) == c = <<>>

\* a resolution that lets the shell decide: builtins resolve too
LookPathOrBuiltin(file) == file \in OnPath \cup ShellBuiltins

\* exec.LookPath: TRUE when the name resolves (err == nil)
LookPath(file) == file \in OnPath

\* a preparation that never assigns cmd.Dir
CmdDirNever(wd) == ""

\* lines 97-99: cmd.Dir is assigned only for a non-empty working_dir
CmdDir(wd) == IF wd # "" THEN wd ELSE ""

\* os/exec: an empty cmd.Dir runs the child in the caller's directory
ChildDir(dir) == IF dir = "" THEN Cwd ELSE dir

\* os/exec: the child can be started in dir
DirUsable(dir) == dir = "" \/ dir \in ValidDirs

\* a wait that reports only exit codes, not the death by a signal
ExitErrorIgnoresSignal(status) ==
    IF status = "exit 1" THEN "exit status 1" ELSE "nil"

\* Process.Wait inside cmd.Run: the error for an exit status
ExitError(status) ==
    IF status = "exit 0" THEN "nil"
    ELSE IF status = "killed" THEN "signal: killed"
    ELSE "exit status 1"

\* cmd.Wait: the error of the process is preferred; otherwise the error of
\* the context watcher, on builds whose os/exec reports it
WaitError(procErr, watch, reports) ==
    IF procErr # "nil" THEN procErr
    ELSE IF reports THEN watch ELSE "nil"

\* resp.Diagnostics.AddAttributeError(path.Root("command"), summary, detail)
AttributeError(summary, fmt, args) ==
    [severity |-> "error", attribute |-> "command",
     summary |-> summary, detail |-> [fmt |-> fmt, args |-> args]]

\* lines 76-80
MissingCommandDiag == AttributeError("Missing Command", "cannot be empty", <<>>)

\* lines 87-91
NotFoundDiag(cmd) == AttributeError("Command Not Found", "'%s' was not found", <<cmd>>)

\* a failure report that leaves the captured stderr out
ExecFailedDiagNoStderr(cmd, e, errorStr) ==
    AttributeError("Command Execution Failed", "Command: %s Error: %s", <<cmd, e>>)

\* lines 119-123
ExecFailedDiag(cmd, e, errorStr) ==
    AttributeError("Command Execution Failed", "Command: %s Error: %s Stderr: %s",
                   <<cmd, e, errorStr>>)

\* the diagnostics of a failed req.Config.Get (line 65)
ConfigDiag ==
    [severity |-> "error", attribute |-> "config",
     summary |-> "Value Conversion Error", detail |-> [fmt |-> "config", args |-> <<>>]]

\* a result with the two streams exchanged
SuccessStateSwapped(cfg, outputStr, errorStr) ==
    [set |-> TRUE, command |-> cfg.command, working_dir |-> cfg.working_dir,
     output |-> StringValue(errorStr), error |-> StringValue(outputStr),
     id |-> StringValue(<<"-">>)]

\* lines 128-132: the model written to the state
SuccessState(cfg, outputStr, errorStr) ==
    [set |-> TRUE, command |-> cfg.command, working_dir |-> cfg.working_dir,
     output |-> StringValue(outputStr), error |-> StringValue(errorStr),
     id |-> StringValue(<<"-">>)]

(* ------------------------------ state --------------------------------- *)

VARIABLES
    req,         \* req.Config: [command, working_dir], both types.String
    configErr,   \* whether req.Config.Get reports an error
    reportsCtx,  \* whether os/exec of the build reports the watcher's error
    pc,          \* position of Read
    command,     \* local of line 72
    workingDir,  \* local of line 73
    cmdDir,      \* cmd.Dir
    stdout,      \* bytes.Buffer bound to the child's stdout
    stderr,      \* bytes.Buffer bound to the child's stderr
    err,         \* local err of lines 85 and 107
    child,       \* "none", "running", "exited" (not yet waited for), "reaped"
    childStatus, \* "none", "exit 0", "exit 1", "killed"
    childDir,    \* directory the child runs in
    pipes,       \* "none", "open", "closed"
    ctxDone,     \* the context of the call is cancelled
    watcher,     \* os/exec goroutine watching ctx: "off", "watching", "fired", "returned"
    watchErr,    \* error the watcher hands to cmd.Wait
    diags,       \* resp.Diagnostics
    state,       \* resp.State
    spawned,     \* number of child processes started by the call
    cancelAt,    \* where Read and the child were when the context was cancelled
    trace        \* steps the call has taken, in order

vars == <<req, configErr, reportsCtx, pc, command, workingDir, cmdDir, stdout,
          stderr, err, child, childStatus, childDir, pipes, ctxDone, watcher,
          watchErr, diags, state, spawned, cancelAt, trace>>

inputs == <<req, configErr, reportsCtx>>
locals == <<command, workingDir, cmdDir, err>>
buffers == <<stdout, stderr>>
process == <<child, childStatus, childDir, pipes, spawned>>
context == <<ctxDone, watcher, watchErr, cancelAt>>
response == <<diags, state>>

Terminal == {"done", "panic"}

\* number of times a step occurs in the trace
RECURSIVE Count(_, _)
Count(t, step) ==
    IF t = <<>> THEN 0
    ELSE (IF Head(t) = step THEN 1 ELSE 0) + Count(Tail(t), step)

\* position of the first occurrence of a step, 0 when absent
RECURSIVE IndexOf(_, _, _)
IndexOf(t, step, i) ==
    IF i > Len(t) THEN 0
    ELSE IF t[i] = step THEN i ELSE IndexOf(t, step, i + 1)

Init ==
    /\ req \in [command : {StringValue(c) : c \in Commands},
                working_dir : {DirNull} \cup {[null |-> FALSE, value |-> d] : d \in WorkingDirs}]
    /\ configErr \in BOOLEAN
    /\ reportsCtx \in BOOLEAN
    /\ pc = "decode"
    /\ command = <<>>
    /\ workingDir = ""
    /\ cmdDir = ""
    /\ stdout = <<>>
    /\ stderr = <<>>
    /\ err = "nil"
    /\ child = "none"
    /\ childStatus = "none"
    /\ childDir = "none"
    /\ pipes = "none"
    /\ ctxDone = FALSE
    /\ watcher = "off"
    /\ watchErr = "nil"
    /\ diags = <<>>
    /\ state = NoState
    /\ spawned = 0
    /\ cancelAt = [pc |-> "never", child |-> "none"]
    /\ trace = <<>>

(* ----------------------------- Read ----------------------------------- *)

\* lines 63-73: decode the configuration, return on a decoding error
Decode ==
    /\ pc = "decode"
    /\ IF configErr
       THEN /\ diags' = Append(diags, ConfigDiag)
            /\ pc' = "done"
            /\ UNCHANGED <<command, workingDir>>
       ELSE /\ command' = ValueString(req.command, <<>>)
            /\ workingDir' = ValueString(req.working_dir, "")
            /\ pc' = "checkEmpty"
            /\ UNCHANGED diags
    /\ UNCHANGED <<inputs, cmdDir, err, buffers, process, context, state, trace>>

\* lines 75-82
CheckEmpty ==
    /\ pc = "checkEmpty"
    /\ trace' = Append(trace, "validate")
    /\ IF IsEmptyCommand(command)
       THEN /\ diags' = Append(diags, MissingCommandDiag)
            /\ pc' = "done"
       ELSE /\ pc' = "resolve"
            /\ UNCHANGED diags
    /\ UNCHANGED <<inputs, locals, buffers, process, context, state>>

\* lines 85-93: strings.Fields(command)[0] panics when there is no field
Resolve ==
    /\ pc = "resolve"
    /\ IF Fields(command) = <<>>
       THEN /\ pc' = "panic"
            /\ UNCHANGED <<err, diags, trace>>
       ELSE /\ trace' = Append(trace, "resolve")
            /\ IF LookPath(Fields(command)[1])
               THEN /\ err' = "nil"
                    /\ pc' = "prepare"
                    /\ UNCHANGED diags
               ELSE /\ err' = "executable file not found in $PATH"
                    /\ diags' = Append(diags, NotFoundDiag(command))
                    /\ pc' = "done"
    /\ UNCHANGED <<inputs, command, workingDir, cmdDir, buffers, process, context, state>>

\* lines 96-105: build the command, bind the two buffers
Prepare ==
    /\ pc = "prepare"
    /\ cmdDir' = CmdDir(workingDir)
    /\ stdout' = <<>>
    /\ stderr' = <<>>
    /\ pc' = "start"
    /\ UNCHANGED <<inputs, command, workingDir, err, process, context, response, trace>>

\* line 107, cmd.Run, first half (cmd.Start): fails without a child when the
\* context is already cancelled, when the directory cannot be entered or when
\* the system cannot start the shell; otherwise the child runs and the
\* context watcher is started
Start ==
    /\ pc = "start"
    /\ trace' = Append(trace, "spawn")
    /\ \E osOk \in BOOLEAN :
         IF ctxDone \/ ~DirUsable(cmdDir) \/ ~osOk
         THEN /\ err' = (IF ctxDone THEN "context canceled"
                         ELSE IF ~DirUsable(cmdDir) THEN "chdir: no such file or directory"
                         ELSE "fork/exec /bin/sh: resource temporarily unavailable")
              /\ pipes' = "closed"
              /\ pc' = "classify"
              /\ UNCHANGED <<child, childStatus, childDir, spawned, watcher>>
         ELSE /\ child' = "running"
              /\ childDir' = ChildDir(cmdDir)
              /\ spawned' = spawned + 1
              /\ pipes' = "open"
              /\ watcher' = "watching"
              /\ pc' = "wait"
              /\ UNCHANGED <<err, childStatus>>
    /\ UNCHANGED <<inputs, command, workingDir, cmdDir, buffers, ctxDone,
                   watchErr, cancelAt, response>>

\* a wait that gives up on a cancelled context and leaves the child behind
WaitProcessOrGiveUp ==
    /\ pc = "wait"
    /\ child = "exited" \/ ctxDone
    /\ trace' = Append(trace, "wait")
    /\ child' = (IF child = "exited" THEN "reaped" ELSE child)
    /\ err' = (IF child = "exited" THEN ExitError(childStatus) ELSE "context canceled")
    /\ pc' = "waitCtx"
    /\ UNCHANGED <<inputs, command, workingDir, cmdDir, buffers, childStatus,
                   childDir, pipes, spawned, context, response>>

\* line 107, cmd.Wait, Process.Wait: blocks until the child has exited, reaps it
WaitProcess ==
    /\ pc = "wait"
    /\ child = "exited"
    /\ trace' = Append(trace, "wait")
    /\ child' = "reaped"
    /\ err' = ExitError(childStatus)
    /\ pc' = "waitCtx"
    /\ UNCHANGED <<inputs, command, workingDir, cmdDir, buffers, childStatus,
                   childDir, pipes, spawned, context, response>>

\* line 107, cmd.Wait, rest: take the watcher's result (an empty one when the
\* watcher has not seen the cancellation), wait for the copying goroutines,
\* close the pipes
WaitContext ==
    /\ pc = "waitCtx"
    /\ watcher \in {"watching", "fired"}
    /\ err' = WaitError(err, IF watcher = "fired" THEN watchErr ELSE "nil", reportsCtx)
    /\ watcher' = "returned"
    /\ pipes' = "closed"
    /\ pc' = "classify"
    /\ UNCHANGED <<inputs, command, workingDir, cmdDir, buffers, child, childStatus,
                   childDir, spawned, ctxDone, watchErr, cancelAt, response, trace>>

\* a classification that falls back to a result when stdout holds data
ClassifyUsesOutput ==
    /\ pc = "classify"
    /\ trace' = Append(trace, "classify")
    /\ IF err # "nil" /\ stdout = <<>>
       THEN /\ diags' = Append(diags, ExecFailedDiag(command, err, stderr))
            /\ UNCHANGED state
       ELSE /\ state' = SuccessState(req, stdout, stderr)
            /\ UNCHANGED diags
    /\ pc' = "done"
    /\ UNCHANGED <<inputs, locals, buffers, process, context>>

\* a classification that runs a failed command a second time
ClassifyWithRetry ==
    /\ pc = "classify"
    /\ trace' = Append(trace, "classify")
    /\ IF err # "nil" /\ Count(trace, "spawn") < 2
       THEN /\ pc' = "start"
            /\ UNCHANGED <<diags, state>>
       ELSE /\ pc' = "done"
            /\ IF err # "nil"
               THEN /\ diags' = Append(diags, ExecFailedDiag(command, err, stderr))
                    /\ UNCHANGED state
               ELSE /\ state' = SuccessState(req, stdout, stderr)
                    /\ UNCHANGED diags
    /\ UNCHANGED <<inputs, locals, buffers, process, context>>

\* lines 108-134: report the failure, or write the result to the state
Classify ==
    /\ pc = "classify"
    /\ trace' = Append(trace, "classify")
    /\ IF err # "nil"
       THEN /\ diags' = Append(diags, ExecFailedDiag(command, err, stderr))
            /\ UNCHANGED state
       ELSE /\ state' = SuccessState(req, stdout, stderr)
            /\ UNCHANGED diags
    /\ pc' = "done"
    /\ UNCHANGED <<inputs, locals, buffers, process, context>>

(* ----------------------- child and environment ------------------------ *)

\* the child writes a byte to its stdout; the copying goroutine stores it
ChildWriteStdout ==
    /\ child = "running"
    /\ Len(stdout) < MaxOut
    /\ \E b \in Bytes : stdout' = Append(stdout, b)
    /\ UNCHANGED <<inputs, pc, locals, stderr, process, context, response, trace>>

\* the child writes a byte to its stderr
ChildWriteStderr ==
    /\ child = "running"
    /\ Len(stderr) < MaxOut
    /\ \E b \in Bytes : stderr' = Append(stderr, b)
    /\ UNCHANGED <<inputs, pc, locals, stdout, process, context, response, trace>>

\* the child exits on its own
ChildExit ==
    /\ child = "running"
    /\ child' = "exited"
    /\ \E s \in {"exit 0", "exit 1"} : childStatus' = s
    /\ UNCHANGED <<inputs, pc, locals, buffers, childDir, pipes, spawned, context,
                   response, trace>>

\* the caller cancels the context of the call
Cancel ==
    /\ pc \notin Terminal
    /\ ~ctxDone
    /\ ctxDone' = TRUE
    /\ cancelAt' = [pc |-> pc, child |-> child]
    /\ UNCHANGED <<inputs, pc, locals, buffers, process, watcher, watchErr,
                   response, trace>>

\* the context watcher of exec.CommandContext sees the cancellation and kills
\* the child: a running child dies, a child that has exited but is not waited
\* for takes the signal without effect, a reaped one reports os.ErrProcessDone
WatcherKill ==
    /\ watcher = "watching"
    /\ ctxDone
    /\ watcher' = "fired"
    /\ IF child = "running"
       THEN /\ child' = "exited"
            /\ childStatus' = "killed"
            /\ watchErr' = "context canceled"
       ELSE IF child = "exited"
       THEN /\ watchErr' = "context canceled"
            /\ UNCHANGED <<child, childStatus>>
       ELSE /\ watchErr' = "nil"
            /\ UNCHANGED <<child, childStatus>>
    /\ UNCHANGED <<inputs, pc, locals, buffers, childDir, pipes, spawned, ctxDone,
                   cancelAt, response, trace>>

Next ==
    \/ Decode
    \/ CheckEmpty
    \/ Resolve
    \/ Prepare
    \/ Start
    \/ WaitProcess
    \/ WaitContext
    \/ Classify
    \/ ChildWriteStdout
    \/ ChildWriteStderr
    \/ ChildExit
    \/ Cancel
    \/ WatcherKill

Spec == Init /\ [][Next]_vars

TypeOK ==
    /\ pc \in {"decode", "checkEmpty", "resolve", "prepare", "start", "wait",
               "waitCtx", "classify", "done", "panic"}
    /\ child \in {"none", "running", "exited", "reaped"}
    /\ childStatus \in {"none", "exit 0", "exit 1", "killed"}
    /\ pipes \in {"none", "open", "closed"}
    /\ watcher \in {"off", "watching", "fired", "returned"}
    /\ Len(stdout) <= MaxOut
    /\ Len(stderr) <= MaxOut
    /\ spawned \in 0..1

(* ------------------------ vocabulary of the claims -------------------- *)

\* Read has returned
Returned == pc = "done"

\* the configuration was decoded, so command and workingDir hold the request
Decoded == ~configErr /\ pc # "decode"

\* the call ends with exactly one error diagnostic of the given summary on
\* the attribute command, and no state
FailsWith(summary) ==
    /\ Len(diags) = 1
    /\ diags[1].severity = "error"
    /\ diags[1].attribute = "command"
    /\ diags[1].summary = summary
    /\ ~state.set

\* the call ends with a state whose three computed attributes are all set
FullResult ==
    /\ state.set
    /\ ~state.output.null
    /\ ~state.error.null
    /\ ~state.id.null

\* the first white-space-delimited token of the command exists
HasToken == Fields(command) # <<>>

\* the context was cancelled before cmd.Start looked at it
CancelledBeforeStart ==
    cancelAt.pc \in {"decode", "checkEmpty", "resolve", "prepare", "start"}

\* the context was cancelled before cmd.Run returned
CancelledBeforeRunReturned ==
    CancelledBeforeStart \/ cancelAt.pc \in {"wait", "waitCtx"}

(* -------------------------------- C1 ---------------------------------- *)

\* C1: a command that is empty or consists only of white space ends the call
\* with the Missing Command diagnostic on attribute command, before any
\* resolution attempt and without a spawn.
C1_BlankCommandRejected ==
    (pc \in Terminal /\ Decoded /\ ~HasToken) =>
        /\ Returned
        /\ FailsWith("Missing Command")
        /\ Count(trace, "resolve") = 0
        /\ Count(trace, "spawn") = 0
        /\ spawned = 0

(* -------------------------------- C2 ---------------------------------- *)

\* C2: when the first token of a non-empty command is not on the search
\* path, no process start is ever attempted and no child exists, and the call
\* ends with the Command Not Found diagnostic carrying the original command,
\* also when the token is a shell builtin.
C2_NotFoundNeverSpawns ==
    (Decoded /\ HasToken /\ Fields(command)[1] \notin OnPath) =>
        /\ Count(trace, "spawn") = 0
        /\ spawned = 0
        /\ child = "none"
        /\ pc \in Terminal =>
              /\ Returned
              /\ FailsWith("Command Not Found")
              /\ diags[1].detail.args = <<req.command.value>>

C2_Witness ==
    /\ Returned
    /\ Decoded
    /\ HasToken
    /\ Fields(command)[1] \in ShellBuiltins
    /\ Len(command) > 1
    /\ FailsWith("Command Not Found")

(* -------------------------------- C3 ---------------------------------- *)

\* C3: when the child exits with a non-zero status or dies, or the start or
\* the wait fails, the call ends with the Command Execution Failed diagnostic
\* whose detail holds the original command, the underlying error and all of
\* the captured stderr, and nothing is written to the state, whatever stdout
\* holds.
C3_FailureCarriesStderr ==
    (Returned /\ Count(trace, "spawn") > 0
        /\ (spawned = 0 \/ childStatus \in {"exit 1", "killed"} \/ err # "nil")) =>
        /\ FailsWith("Command Execution Failed")
        /\ err # "nil"
        /\ diags[1].detail.args = <<req.command.value, err, stderr>>

C3_Witness ==
    /\ Returned
    /\ childStatus = "exit 1"
    /\ stdout # <<>>
    /\ stderr # <<>>
    /\ FailsWith("Command Execution Failed")

(* -------------------------------- C4 ---------------------------------- *)

\* the result of a successful call: stdout, stderr and the identifier "-"
IsResultOf(out, errOut) ==
    /\ FullResult
    /\ state.output.value = out
    /\ state.error.value = errOut
    /\ state.id.value = <<"-">>
    /\ diags = <<>>

\* C4 as stated: every call whose child exits with status 0 returns the
\* result made of the captured stdout, the captured stderr and "-", with no
\* diagnostic.
C4_ExitZeroGivesResult ==
    (Returned /\ childStatus = "exit 0") => IsResultOf(stdout, stderr)

\* C4 amended: every call whose child exits with status 0, and whose
\* context is not cancelled before cmd.Run has returned, returns that result.
C4_ExitZeroUncancelledGivesResult ==
    (Returned /\ childStatus = "exit 0" /\ ~CancelledBeforeRunReturned) =>
        IsResultOf(stdout, stderr)

C4_Witness ==
    /\ Returned
    /\ childStatus = "exit 0"
    /\ ~ctxDone
    /\ stdout # <<>>
    /\ stderr # <<>>
    /\ stdout # stderr
    /\ IsResultOf(stdout, stderr)

(* -------------------------------- C5 ---------------------------------- *)

\* C5: every call ends either with a fully populated result and no error
\* diagnostic, or with an error diagnostic and no state at all; never with
\* both, a partial result, or neither.
C5_ResultOrFailure ==
    pc \in Terminal =>
        \/ FullResult /\ diags = <<>>
        \/ ~state.set /\ Len(diags) > 0 /\ \A i \in 1..Len(diags) : diags[i].severity = "error"

(* -------------------------------- C6 ---------------------------------- *)

C7_NoResultAfterCancel ==
    (Returned /\ ctxDone) => ~state.set

\* C7 amended: a call whose child was killed by the cancellation, or whose
\* context was cancelled before the process start, never returns a result,
\* whatever the child had written; a call whose child had already exited
\* with status 0 when the context was cancelled may return one.
C7_NoResultAfterKill ==
    (Returned /\ (childStatus = "killed" \/ CancelledBeforeStart)) =>
        /\ ~state.set
        /\ Len(diags) = 1

C7_Witness ==
    /\ Returned
    /\ childStatus = "killed"
    /\ stdout # <<>>
    /\ ~state.set

(* -------------------------------- C8 ---------------------------------- *)

\* C8: when the call is over, a child it started has been waited for and
\* the pipes of its stdout and stderr are closed, on success, on failure, on
\* cancellation and when the start failed.
C8_ChildReaped ==
    pc \in Terminal =>
        /\ child \in {"none", "reaped"}
        /\ pipes \in {"none", "closed"}
        /\ Count(trace, "spawn") > 0 => pipes = "closed"
        /\ spawned > 0 => child = "reaped"

C8_Witness ==
    /\ Returned
    /\ ctxDone
    /\ cancelAt.pc = "wait"
    /\ spawned = 1
    /\ child = "reaped"
    /\ pipes = "closed"

(* -------------------------------- C9 ---------------------------------- *)

\* the working directory is present in the request
DirSet == ~req.working_dir.null

\* C9 as stated: in a call that reaches the process start, the child runs
\* in working_dir exactly when working_dir is set and in the caller's
\* directory when it is absent, and a set working_dir that is no valid
\* directory makes the start fail and the call end with Command Execution
\* Failed.
C9_DirOverriddenWhenSet ==
    (pc \in Terminal /\ Count(trace, "spawn") > 0) =>
        /\ (spawned > 0 /\ DirSet) => childDir = req.working_dir.value
        /\ (spawned > 0 /\ ~DirSet) => childDir = Cwd
        /\ (DirSet /\ req.working_dir.value \notin ValidDirs) =>
              spawned = 0 /\ FailsWith("Command Execution Failed")

\* the working directory is present and not the empty string
DirGiven == DirSet /\ req.working_dir.value # ""

\* C9 amended: the same, with "set" read as "set to a non-empty string": an
\* empty working_dir is treated as an absent one.
C9_DirOverriddenWhenNonEmpty ==
    (pc \in Terminal /\ Count(trace, "spawn") > 0) =>
        /\ (spawned > 0 /\ DirGiven) => childDir = req.working_dir.value
        /\ (spawned > 0 /\ ~DirGiven) => childDir = Cwd
        /\ (DirGiven /\ req.working_dir.value \notin ValidDirs) =>
              spawned = 0 /\ FailsWith("Command Execution Failed")

C9_Witness ==
    /\ Returned
    /\ DirGiven
    /\ spawned = 1
    /\ childDir = "/ok"
    /\ state.set

(* -------------------------------- C10 --------------------------------- *)

\* the call passed the non-empty check and the resolution
PassedBothChecks == Decoded /\ HasToken /\ Fields(command)[1] \in OnPath

\* step a precedes step b whenever b was taken
Precedes(a, b) ==
    IndexOf(trace, b, 1) > 0 =>
        IndexOf(trace, a, 1) > 0 /\ IndexOf(trace, a, 1) < IndexOf(trace, b, 1)

\* the steps were taken in the order validate, resolve, spawn, wait,
\* classify, none of them twice
LinearPass ==
    /\ Precedes("validate", "resolve")
    /\ Precedes("resolve", "spawn")
    /\ Precedes("spawn", "wait")
    /\ Precedes("spawn", "classify")
    /\ \A s \in {"validate", "resolve", "spawn", "wait", "classify"} : Count(trace, s) <= 1
    /\ spawned <= 1

\* C10 as stated: the pass is linear and a call that passed both checks has
\* spawned exactly one child when it is over.
C10_ExactlyOneChild ==
    /\ LinearPass
    /\ (pc \in Terminal /\ PassedBothChecks) => spawned = 1

\* C10 amended: the pass is linear; a call that passed both checks makes
\* exactly one process start, which spawns exactly one child unless the start
\* itself fails (context already cancelled, unusable working directory, the
\* system unable to start the shell), and then none.
C10_ExactlyOneStart ==
    /\ LinearPass
    /\ (pc \in Terminal /\ PassedBothChecks) =>
          /\ Count(trace, "spawn") = 1
          /\ spawned = 1 \/ (spawned = 0 /\ childStatus = "none"
                              /\ FailsWith("Command Execution Failed"))
    /\ (pc \in Terminal /\ ~PassedBothChecks) => Count(trace, "spawn") = 0

C10_Witness ==
    /\ Returned
    /\ PassedBothChecks
    /\ trace = <<"validate", "resolve", "spawn", "wait", "classify">>
    /\ spawned = 1

====
